---- MODULE Spec2Model ----
(***************************************************************************)
(* Model of neutron/agent/l2/extensions/local_ip.py: the Local IP agent    *)
(* extension keeps, per port, the pending Local IP association changes in  *)
(* two tables (local_ip_updates['added'] and local_ip_updates['deleted']), *)
(* seeds them from a bulk pull in initialize, mutates them in              *)
(* _handle_notification, drains them in handle_port and discards them in   *)
(* delete_port.                                                            *)
(*                                                                         *)
(* Spec        the handlers of the extension run one after the other, each *)
(*             to its end (a notification is a call, one step per record   *)
(*             of its batch, and a return, with no other handler between). *)
(* SpecThreads initialize, _handle_notification and the port handlers are  *)
(*             three threads of control. A step is one dict method call or *)
(*             subscript assignment of the source, or one blocking call    *)
(*             (bulk_pull); the threads interleave freely, as the source   *)
(*             takes no lock. The subscript chain of one assignment        *)
(*             (table, port, local ip) is one step.                        *)
(* SpecRedeliver the handlers of Spec with fewer objects, where a batch may *)
(*             hold the object its loop has just gone through once more.   *)
(* SpecLive    the handlers of Spec with fewer objects and the fairness of *)
(*             the port pipeline: the loop of a notification ends, and a   *)
(*             port the pipeline was told to handle is handled.            *)
(***************************************************************************)
EXTENDS Integers, Sequences, FiniteSets, TLC

\* ---------------------------------------------------------------- bounds
\* Number of association objects ever delivered (seed and notifications).
MaxObj == 3
\* The same, when the handlers run as threads (SpecThreads).
MaxThreadObj == 2
\* Longest answer of the bulk pull.
MaxSeed == 2
\* How many more times a batch may hold the object its loop has just gone
\* through (SpecRedeliver).
MaxRepeat == 1
\* Number of association objects ever delivered and longest answer of the
\* bulk pull in the small configuration (SpecRedeliver, SpecLive).
MaxFewObj == 2
MaxFewSeed == 1

\* ------------------------------------------------------------- constants
Ports == {"A", "B"}
Lips == {"l1", "l2"}

LOCAL_IP_ASSOCIATION == "LocalIPAssociation"
PORT == "Port"
ResourceTypes == {LOCAL_IP_ASSOCIATION, PORT}

CREATED == "created"
UPDATED == "updated"
DELETED == "deleted"
OTHER_EVENT == "other"
EventTypes == {CREATED, UPDATED, DELETED, OTHER_EVENT}

EXTENSION_DRIVER_TYPE == "ovs"
DriverTypes == {EXTENSION_DRIVER_TYPE, "linuxbridge"}

\* ------------------------------------------------------------ data model
\* One LocalIPAssociation object: the two fields the extension reads as keys
\* and the identity of the object (every delivery builds a new object).
Assoc(p, l, n) == [fixed_port_id |-> p, local_ip_id |-> l, obj |-> n]

\* The objects of a batch (or of a bulk pull answer): the i-th element of
\* pairs is <<port, local ip>>, the objects are numbered from base.
MkList(pairs, base) ==
    [i \in 1..Len(pairs) |-> Assoc(pairs[i][1], pairs[i][2], base + i - 1)]

PairLists(n) == UNION {[1..k -> Ports \X Lips] : k \in 0..n}

\* A Python dict is a function on its keys.
EmptyDict == << >>

DictSet(d, k, v) == [x \in (DOMAIN d) \cup {k} |-> IF x = k THEN v ELSE d[x]]

DictPop(d, k) == [x \in (DOMAIN d) \ {k} |-> d[x]]

DictGet(d, k, default) == IF k \in DOMAIN d THEN d[k] ELSE default

DictValues(d) == {d[k] : k \in DOMAIN d}

\* collections.defaultdict(dict).__getitem__: a missing key is inserted with
\* an empty dict.
DefaultGet(t, p) == IF p \in DOMAIN t THEN t ELSE DictSet(t, p, EmptyDict)

NewStore == [added |-> EmptyDict, deleted |-> EmptyDict]

\* ------------------------------------------------------------- variables
VARIABLES
    pc,                \* where initialize is: "new", "registered" (consumer
                       \* registered), "store" (store created), "pulled"
                       \* (bulk_pull answered), "ready" or "exited"
    registered,        \* _handle_notification is registered as a consumer
    has_store,         \* self.local_ip_updates exists
    local_ip_updates,  \* [added, deleted]: port -> (local ip -> association)
    assoc_list,        \* the answer of bulk_pull
    npc,               \* where _handle_notification is: "idle", "loop" (at
                       \* the head of its loop), "evict" (between the two
                       \* statements of the DELETED branch) or "notify"
                       \* (before _notify_port_updated)
    ppc,               \* where the port handler is: "idle", "pop_deleted",
                       \* "loops" (handle_port) or "discard_deleted"
    pport,             \* the port it works on
    snap,              \* the two tables of that port when its drain began
    crashed,           \* a handler ended with AttributeError (no store)
    lastOp,            \* the handler that ran last (Spec)
    notification,      \* its arguments, when it was _handle_notification
    log,               \* what it did to the store and published, in order
    ret,               \* what _pop_local_ip_updates_for_port returned to it
    installed,         \* the associations its 'added' loop went through
    removed,           \* the associations its 'deleted' loop went through
    handed,            \* objects any handle_port loop has gone through
    nextObj,           \* identity of the next association object
    ghost              \* history, per <<port, lip>>, since the last drain or
                       \* discard of the port: ev, the last event that
                       \* reached the store ("none": none); up, the object the
                       \* last seed/CREATED/UPDATED carried; del, the object
                       \* the last DELETED carried (0: none); due, the ports
                       \* the port pipeline has been told to handle and has
                       \* not handled since (a "port updated" was published
                       \* for them, or the restart seeded them)

vars == <<pc, registered, has_store, local_ip_updates, assoc_list, npc, ppc,
          pport, snap, crashed, lastOp,
          notification, log, ret, installed, removed, handed, nextObj, ghost>>

Keys == Ports \X Lips

NoNotification == [resource_type |-> "none", event_type |-> "none",
                   local_ip_associations |-> << >>]

\* again: the handler is handle_port and the handler before it was a
\* handle_port of the same port that returned pending changes.
Op(name, p, again) == [op |-> name, port |-> p, again |-> again]

NoGhost == [ev  |-> [k \in Keys |-> "none"],
            up  |-> [k \in Keys |-> 0],
            del |-> [k \in Keys |-> 0],
            due |-> {}]

Init ==
    /\ pc = "new"
    /\ registered = FALSE
    /\ has_store = FALSE
    /\ local_ip_updates = NewStore
    /\ assoc_list = << >>
    /\ npc = "idle"
    /\ ppc = "idle"
    /\ pport = "none"
    /\ snap = NewStore
    /\ crashed = FALSE
    /\ lastOp = Op("none", "none", FALSE)
    /\ notification = NoNotification
    /\ log = << >>
    /\ ret = NewStore
    /\ installed = {}
    /\ removed = {}
    /\ handed = {}
    /\ nextObj = 1
    /\ ghost = NoGhost

\* ------------------------------------------------------ store operations
\* Mutant: setdefault, an entry already there is kept.
UpsertAdded_SetDefault(upd, assoc) ==
    LET p == assoc.fixed_port_id
        t == DefaultGet(upd.added, p)
    IN  [upd EXCEPT !.added =
            [t EXCEPT ![p] = IF assoc.local_ip_id \in DOMAIN @ THEN @
                             ELSE DictSet(@, assoc.local_ip_id, assoc)]]

\* Mutant: an id that is in deleted[port] is not added again.
UpsertAdded_UnlessDeleted(upd, assoc) ==
    LET p == assoc.fixed_port_id
        t == DefaultGet(upd.added, p)
    IN  IF p \in DOMAIN upd.deleted /\ assoc.local_ip_id \in DOMAIN upd.deleted[p]
        THEN upd
        ELSE [upd EXCEPT !.added = [t EXCEPT ![p] = DictSet(@, assoc.local_ip_id, assoc)]]

\* self.local_ip_updates['added'][port_id][lip_id] = assoc
UpsertAdded(upd, assoc) ==
    LET p == assoc.fixed_port_id
        t == DefaultGet(upd.added, p)
    IN  [upd EXCEPT !.added = [t EXCEPT ![p] = DictSet(@, assoc.local_ip_id, assoc)]]

\* self.local_ip_updates['deleted'][port_id][lip_id] = assoc
SetDeleted(upd, assoc) ==
    LET p == assoc.fixed_port_id
        t == DefaultGet(upd.deleted, p)
    IN  [upd EXCEPT !.deleted = [t EXCEPT ![p] = DictSet(@, assoc.local_ip_id, assoc)]]

\* Mutant: the pop is made on the 'deleted' table.
EvictAdded_FromDeleted(upd, assoc) ==
    LET p == assoc.fixed_port_id
        t == DefaultGet(upd.deleted, p)
    IN  [upd EXCEPT !.deleted = [t EXCEPT ![p] = DictPop(@, assoc.local_ip_id)]]

\* self.local_ip_updates['added'][port_id].pop(lip_id, None)
EvictAdded(upd, assoc) ==
    LET p == assoc.fixed_port_id
        t == DefaultGet(upd.added, p)
    IN  [upd EXCEPT !.added = [t EXCEPT ![p] = DictPop(@, assoc.local_ip_id)]]

\* The DELETED branch: both statements.
MarkDeleted(upd, assoc) == EvictAdded(SetDeleted(upd, assoc), assoc)

\* self.local_ip_updates[table].pop(port_id, {}): what it returns, and the
\* table after.
PopValue(t, port_id) == DictGet(t, port_id, EmptyDict)

\* Mutant: get, the entry of the port stays in the table.
PopTable_Get(t, port_id) == t

\* Mutant: clear, the entries of all ports go.
PopTable_Clear(t, port_id) == EmptyDict

\* Mutant: the entry of the port is reset to an empty dict, not removed.
PopTable_Reset(t, port_id) == DictSet(t, port_id, EmptyDict)

PopTable(t, port_id) == DictPop(t, port_id)

\* _pop_local_ip_updates_for_port: the dict it returns, and the store after.
PopReturn(upd, port_id) ==
    [added   |-> PopValue(upd.added, port_id),
     deleted |-> PopValue(upd.deleted, port_id)]

\* Mutant: only the 'added' table is popped.
PopStore_AddedOnly(upd, port_id) ==
    [added   |-> DictPop(upd.added, port_id),
     deleted |-> upd.deleted]

PopStore(upd, port_id) ==
    [added   |-> PopTable(upd.added, port_id),
     deleted |-> PopTable(upd.deleted, port_id)]

\* Mutant: only the 'added' table is popped.
DiscardStore_AddedOnly(upd, port_id) ==
    [added   |-> DictPop(upd.added, port_id),
     deleted |-> upd.deleted]

\* delete_port: both pops, nothing returned.
DiscardStore(upd, port_id) ==
    [added   |-> PopTable(upd.added, port_id),
     deleted |-> PopTable(upd.deleted, port_id)]

\* ------------------------------------------------------------ initialize
RECURSIVE PullLoop(_, _, _)
\* for assoc in assoc_list: self.local_ip_updates['added'][port_id][lip_id] = assoc
PullLoop(upd, list, i) ==
    IF i > Len(list) THEN upd
    ELSE PullLoop(UpsertAdded(upd, list[i]), list, i + 1)

RECURSIVE PullLoop_Replace(_, _, _)
\* Mutant: the dict of the port is replaced, not updated.
PullLoop_Replace(upd, list, i) ==
    IF i > Len(list) THEN upd
    ELSE PullLoop_Replace(
             [upd EXCEPT !.added = DictSet(@, list[i].fixed_port_id,
                                           DictSet(EmptyDict, list[i].local_ip_id, list[i]))],
             list, i + 1)

PullAll_Replace(upd, list) == PullLoop_Replace(upd, list, 1)

PullAllLocalIpAssociations(upd, list) == PullLoop(upd, list, 1)

\* What the history variables record of one record that reached the store.
GhostRecord(g, assoc, event_type) ==
    LET k == <<assoc.fixed_port_id, assoc.local_ip_id>>
    IN  IF event_type \in {"seed", CREATED, UPDATED}
        THEN [g EXCEPT !.ev[k] = event_type, !.up[k] = assoc.obj]
        ELSE IF event_type = DELETED
        THEN [g EXCEPT !.ev[k] = event_type, !.del[k] = assoc.obj]
        ELSE g

RECURSIVE GhostLoop(_, _, _, _)
GhostLoop(g, list, event_type, i) ==
    IF i > Len(list) THEN g
    ELSE GhostLoop(GhostRecord(g, list[i], event_type), list, event_type, i + 1)

GhostForget(g, p) ==
    [ev  |-> [k \in Keys |-> IF k[1] = p THEN "none" ELSE g.ev[k]],
     up  |-> [k \in Keys |-> IF k[1] = p THEN 0 ELSE g.up[k]],
     del |-> [k \in Keys |-> IF k[1] = p THEN 0 ELSE g.del[k]],
     due |-> g.due \ {p}]

\* The ports of the "port updated" events a handler appended to its log.
Published(before, after) ==
    {after[i].port : i \in {j \in (Len(before) + 1)..Len(after) :
                                after[j].op = "port_updated"}}

\* The agent is told to handle the ports of the events published.
GhostSignals(g, before, after) ==
    [g EXCEPT !.due = @ \cup Published(before, after)]

\* "on restart agent handles all ports anyway": the ports of the seed.
GhostRestart(g, list) ==
    [g EXCEPT !.due = @ \cup {list[i].fixed_port_id : i \in 1..Len(list)}]

threadVars == <<ppc, pport, snap, crashed>>

NoOutput ==
    /\ notification' = NoNotification
    /\ log' = << >>
    /\ ret' = NewStore
    /\ installed' = {}
    /\ removed' = {}

\* Mutant: the consumer is registered before the driver type is checked.
Initialize_RegisterFirst(driver_type, pairs) ==
    /\ pc = "new"
    /\ registered' = TRUE
    /\ IF driver_type # EXTENSION_DRIVER_TYPE
       THEN /\ pc' = "exited"
            /\ lastOp' = Op("exit", "none", FALSE)
            /\ UNCHANGED <<has_store, local_ip_updates, assoc_list, nextObj, ghost>>
       ELSE LET list == MkList(pairs, nextObj)
            IN  /\ pc' = "ready"
                /\ has_store' = TRUE
                /\ assoc_list' = list
                /\ local_ip_updates' = PullAllLocalIpAssociations(NewStore, list)
                /\ nextObj' = nextObj + Len(list)
                /\ ghost' = GhostRestart(GhostLoop(ghost, list, "seed", 1), list)
                /\ lastOp' = Op("initialize", "none", FALSE)
    /\ NoOutput
    /\ UNCHANGED <<handed, npc, threadVars>>

Initialize(driver_type, pairs) ==
    /\ pc = "new"
    /\ IF driver_type # EXTENSION_DRIVER_TYPE
       THEN /\ pc' = "exited"
            /\ lastOp' = Op("exit", "none", FALSE)
            /\ UNCHANGED <<registered, has_store, local_ip_updates, assoc_list,
                           nextObj, ghost>>
       ELSE LET list == MkList(pairs, nextObj)
            IN  /\ pc' = "ready"
                /\ registered' = TRUE
                /\ has_store' = TRUE
                /\ assoc_list' = list
                /\ local_ip_updates' = PullAllLocalIpAssociations(NewStore, list)
                /\ nextObj' = nextObj + Len(list)
                /\ ghost' = GhostRestart(GhostLoop(ghost, list, "seed", 1), list)
                /\ lastOp' = Op("initialize", "none", FALSE)
    /\ NoOutput
    /\ UNCHANGED <<handed, npc, threadVars>>

\* -------------------------------------------------- _handle_notification
LogEntry(what, assoc) ==
    [op |-> what, port |-> assoc.fixed_port_id, lip |-> assoc.local_ip_id,
     obj |-> assoc.obj]

\* Mutant: a port is signalled once per call, however many records it has.
NotifyPortUpdated_OncePerPort(s, assoc) ==
    IF \E i \in 1..Len(s.log) :
          s.log[i].op = "port_updated" /\ s.log[i].port = assoc.fixed_port_id
    THEN s
    ELSE [s EXCEPT !.log = Append(@, LogEntry("port_updated", assoc))]

\* Mutant: the call is made in the CREATED / UPDATED / DELETED branches only.
NotifyPortUpdated_KnownKindsOnly(s, assoc) ==
    IF s.log[Len(s.log)].op = "ignore" THEN s
    ELSE [s EXCEPT !.log = Append(@, LogEntry("port_updated", assoc))]

\* Mutant: the call is made in the CREATED / UPDATED branch only.
NotifyPortUpdated_UpsertOnly(s, assoc) ==
    IF s.log[Len(s.log)].op # "upsert" THEN s
    ELSE [s EXCEPT !.log = Append(@, LogEntry("port_updated", assoc))]

\* _notify_port_updated: one PORT AFTER_UPDATE event for port_id.
NotifyPortUpdated(s, assoc) ==
    [s EXCEPT !.log = Append(@, LogEntry("port_updated", assoc))]

\* Mutant: the DELETED branch is an else, it takes every other event type.
Effect_ElseDeleted(upd, assoc, event_type) ==
    IF event_type \in {CREATED, UPDATED} THEN UpsertAdded(upd, assoc)
    ELSE MarkDeleted(upd, assoc)

\* The store effect of one record, by event type.
Effect(upd, assoc, event_type) ==
    IF event_type \in {CREATED, UPDATED} THEN UpsertAdded(upd, assoc)
    ELSE IF event_type = DELETED THEN MarkDeleted(upd, assoc)
    ELSE upd

EffectName(event_type) ==
    IF event_type \in {CREATED, UPDATED} THEN "upsert"
    ELSE IF event_type = DELETED THEN "delete"
    ELSE "ignore"

ApplyEffect(s, assoc, event_type) ==
    [upd |-> Effect(s.upd, assoc, event_type),
     log |-> Append(s.log, LogEntry(EffectName(event_type), assoc))]

\* One turn of the loop over local_ip_associations.
ReduceRecord(s, assoc, event_type) ==
    NotifyPortUpdated(ApplyEffect(s, assoc, event_type), assoc)

\* Mutant: the resource type is not looked at.
Recognised_Any(resource_type) == TRUE

\* if resource_type != resources.LOCAL_IP_ASSOCIATION: ... return
Recognised(resource_type) == resource_type = LOCAL_IP_ASSOCIATION

\* The call of _handle_notification up to its loop. local_ip_associations is
\* read by the loop only: the model draws each record when the loop reaches it.
NotificationCall(resource_type, event_type) ==
    /\ registered
    /\ npc = "idle"
    /\ notification' = [resource_type |-> resource_type,
                        event_type |-> event_type,
                        local_ip_associations |-> << >>]
    /\ npc' = IF Recognised(resource_type) THEN "loop" ELSE "idle"
    /\ lastOp' = Op("notification", "none", FALSE)
    /\ log' = << >>
    /\ ret' = NewStore
    /\ installed' = {}
    /\ removed' = {}
    /\ assoc_list' = << >>
    /\ UNCHANGED <<pc, registered, has_store, local_ip_updates, handed, nextObj,
                   ghost, threadVars>>

\* One turn of the loop, for the next record of the batch.
NotificationRecord(p, l) ==
    /\ npc = "loop"
    /\ has_store
    /\ nextObj <= MaxObj
    /\ LET assoc == Assoc(p, l, nextObj)
           s == ReduceRecord([upd |-> local_ip_updates, log |-> log], assoc,
                             notification.event_type)
       IN  /\ local_ip_updates' = s.upd
           /\ log' = s.log
           /\ notification' = [notification EXCEPT
                                 !.local_ip_associations = Append(@, assoc)]
           /\ ghost' = GhostSignals(GhostRecord(ghost, assoc, notification.event_type),
                                    log, s.log)
    /\ nextObj' = nextObj + 1
    /\ UNCHANGED <<pc, registered, has_store, assoc_list, lastOp, ret, installed,
                   removed, handed, npc, threadVars>>

\* The batch is exhausted: the handler returns.
NotificationReturn ==
    /\ npc = "loop"
    /\ npc' = "idle"
    /\ UNCHANGED <<pc, registered, has_store, local_ip_updates, assoc_list,
                   lastOp, notification, log, ret, installed, removed, handed,
                   nextObj, ghost, threadVars>>

\* ---------------------------------------------- handle_port, delete_port
Objs(S) == {a.obj : a \in S}

\* for assoc in local_ip_updates['added'].values(): ...
AddedLoop(r) == DictValues(r.added)

\* for assoc in local_ip_updates['deleted'].values(): ...
DeletedLoop(r) == DictValues(r.deleted)

HandlePort(port_id) ==
    /\ pc = "ready"
    /\ npc = "idle"
    /\ LET r == PopReturn(local_ip_updates, port_id)
       IN  /\ ret' = r
           /\ local_ip_updates' = PopStore(local_ip_updates, port_id)
           /\ installed' = AddedLoop(r)
           /\ removed' = DeletedLoop(r)
           /\ handed' = handed \cup Objs(AddedLoop(r)) \cup Objs(DeletedLoop(r))
    /\ ghost' = GhostForget(ghost, port_id)
    /\ lastOp' = Op("handle_port", port_id,
                    /\ lastOp.op = "handle_port"
                    /\ lastOp.port = port_id
                    /\ ret # NewStore)
    /\ notification' = NoNotification
    /\ log' = << >>
    /\ assoc_list' = << >>
    /\ UNCHANGED <<pc, registered, has_store, nextObj, npc, threadVars>>

DeletePort(port_id) ==
    /\ pc = "ready"
    /\ npc = "idle"
    /\ local_ip_updates' = DiscardStore(local_ip_updates, port_id)
    /\ ghost' = GhostForget(ghost, port_id)
    /\ lastOp' = Op("delete_port", port_id, FALSE)
    /\ NoOutput
    /\ assoc_list' = << >>
    /\ UNCHANGED <<pc, registered, has_store, handed, nextObj, npc, threadVars>>

\* ---------------------------------------------------------- specification
Next ==
    \/ \E d \in DriverTypes, pairs \in PairLists(MaxSeed) : Initialize(d, pairs)
    \/ \E r \in ResourceTypes, e \in EventTypes : NotificationCall(r, e)
    \/ \E p \in Ports, l \in Lips : NotificationRecord(p, l)
    \/ NotificationReturn
    \/ \E p \in Ports : HandlePort(p)
    \/ \E p \in Ports : DeletePort(p)

Spec == Init /\ [][Next]_vars

\* ------------------------------------------------- threads of control
\* initialize, statement by statement.
\* if driver_type != EXTENSION_DRIVER_TYPE: sys.exit(1); otherwise
\* self._register_rpc_consumers(connection).
InitRegister(driver_type) ==
    /\ pc = "new"
    /\ IF driver_type # EXTENSION_DRIVER_TYPE
       THEN /\ pc' = "exited"
            /\ UNCHANGED registered
       ELSE /\ pc' = "registered"
            /\ registered' = TRUE
    /\ UNCHANGED <<has_store, local_ip_updates, assoc_list, npc, lastOp, notification,
                   log, ret, installed, removed, handed, nextObj, ghost,
                   threadVars>>

\* self.local_ip_updates = {'added': defaultdict(dict), 'deleted': ...}
InitCreateStore ==
    /\ pc = "registered"
    /\ pc' = "store"
    /\ has_store' = TRUE
    /\ local_ip_updates' = NewStore
    /\ UNCHANGED <<registered, assoc_list, npc, lastOp, notification, log, ret,
                   installed, removed, handed, nextObj, ghost, threadVars>>

\* assoc_list = self.resource_rpc.bulk_pull(...): a blocking call.
InitBulkPull(pairs) ==
    /\ pc = "store"
    /\ nextObj + Len(pairs) - 1 <= MaxThreadObj
    /\ pc' = "pulled"
    /\ assoc_list' = MkList(pairs, nextObj)
    /\ nextObj' = nextObj + Len(pairs)
    /\ UNCHANGED <<registered, has_store, local_ip_updates, npc, lastOp,
                   notification, log, ret, installed, removed, handed, ghost,
                   threadVars>>

\* The loop over assoc_list.
InitSeed ==
    /\ pc = "pulled"
    /\ pc' = "ready"
    /\ local_ip_updates' = PullAllLocalIpAssociations(local_ip_updates, assoc_list)
    /\ ghost' = GhostRestart(GhostLoop(ghost, assoc_list, "seed", 1), assoc_list)
    /\ UNCHANGED <<registered, has_store, assoc_list, npc, lastOp, notification,
                   log, ret, installed, removed, handed, nextObj, threadVars>>

\* _handle_notification, one dict operation at a time. The next record of
\* the batch is Assoc(p, l, nextObj).
NotifFrame == <<pc, registered, has_store, assoc_list, lastOp, ret, installed,
                removed, handed, ppc, pport, snap>>

\* The call, up to the loop.
ThCall(resource_type, event_type) ==
    /\ registered
    /\ npc = "idle"
    /\ notification' = [resource_type |-> resource_type,
                        event_type |-> event_type,
                        local_ip_associations |-> << >>]
    /\ npc' = IF Recognised(resource_type) THEN "loop" ELSE "idle"
    /\ log' = << >>
    /\ UNCHANGED <<local_ip_updates, nextObj, ghost, crashed, NotifFrame>>

\* The batch is exhausted: the handler returns.
ThReturn ==
    /\ npc = "loop"
    /\ npc' = "idle"
    /\ UNCHANGED <<local_ip_updates, notification, log, nextObj, ghost, crashed,
                   NotifFrame>>

Read(assoc) ==
    /\ notification' = [notification EXCEPT
                          !.local_ip_associations = Append(@, assoc)]
    /\ nextObj' = nextObj + 1

\* A CREATED / UPDATED / DELETED record before the store exists:
\* self.local_ip_updates raises AttributeError and the handler ends.
ThNoStore(p, l) ==
    /\ npc = "loop"
    /\ nextObj <= MaxThreadObj
    /\ notification.event_type \in {CREATED, UPDATED, DELETED}
    /\ ~has_store
    /\ Read(Assoc(p, l, nextObj))
    /\ crashed' = TRUE
    /\ npc' = "idle"
    /\ UNCHANGED <<local_ip_updates, log, ghost, NotifFrame>>

ThUpsert(p, l) ==
    /\ npc = "loop"
    /\ nextObj <= MaxThreadObj
    /\ notification.event_type \in {CREATED, UPDATED}
    /\ has_store
    /\ LET assoc == Assoc(p, l, nextObj)
       IN  /\ Read(assoc)
           /\ local_ip_updates' = UpsertAdded(local_ip_updates, assoc)
           /\ log' = Append(log, LogEntry("upsert", assoc))
           /\ ghost' = GhostRecord(ghost, assoc, notification.event_type)
    /\ npc' = "notify"
    /\ UNCHANGED <<crashed, NotifFrame>>

ThSetDeleted(p, l) ==
    /\ npc = "loop"
    /\ nextObj <= MaxThreadObj
    /\ notification.event_type = DELETED
    /\ has_store
    /\ LET assoc == Assoc(p, l, nextObj)
       IN  /\ Read(assoc)
           /\ local_ip_updates' = SetDeleted(local_ip_updates, assoc)
           /\ ghost' = GhostRecord(ghost, assoc, DELETED)
    /\ npc' = "evict"
    /\ UNCHANGED <<log, crashed, NotifFrame>>

Current == notification.local_ip_associations[Len(notification.local_ip_associations)]

ThEvictAdded ==
    /\ npc = "evict"
    /\ local_ip_updates' = EvictAdded(local_ip_updates, Current)
    /\ log' = Append(log, LogEntry("delete", Current))
    /\ npc' = "notify"
    /\ UNCHANGED <<notification, nextObj, ghost, crashed, NotifFrame>>

ThIgnore(p, l) ==
    /\ npc = "loop"
    /\ nextObj <= MaxThreadObj
    /\ notification.event_type \notin {CREATED, UPDATED, DELETED}
    /\ LET assoc == Assoc(p, l, nextObj)
       IN  /\ Read(assoc)
           /\ log' = Append(log, LogEntry("ignore", assoc))
    /\ npc' = "notify"
    /\ UNCHANGED <<local_ip_updates, ghost, crashed, NotifFrame>>

ThNotify ==
    /\ npc = "notify"
    /\ log' = NotifyPortUpdated([upd |-> local_ip_updates, log |-> log], Current).log
    /\ ghost' = GhostSignals(ghost, log, log')
    /\ npc' = "loop"
    /\ UNCHANGED <<local_ip_updates, notification, nextObj, crashed, NotifFrame>>

\* handle_port and delete_port, one dict operation at a time.
PortFrame == <<pc, registered, has_store, assoc_list, npc, notification, log,
               nextObj, crashed, lastOp>>

\* 'added': self.local_ip_updates['added'].pop(port_id, {})
ThPopAdded(port_id) ==
    /\ pc = "ready"
    /\ ppc = "idle"
    /\ ppc' = "pop_deleted"
    /\ pport' = port_id
    /\ snap' = PopReturn(local_ip_updates, port_id)
    /\ ret' = [added |-> PopValue(local_ip_updates.added, port_id),
               deleted |-> EmptyDict]
    /\ local_ip_updates' = [local_ip_updates EXCEPT !.added = PopTable(@, port_id)]
    /\ installed' = {}
    /\ removed' = {}
    /\ UNCHANGED <<handed, ghost, PortFrame>>

\* 'deleted': self.local_ip_updates['deleted'].pop(port_id, {})
ThPopDeleted ==
    /\ ppc = "pop_deleted"
    /\ ppc' = "loops"
    /\ ret' = [ret EXCEPT !.deleted = PopValue(local_ip_updates.deleted, pport)]
    /\ local_ip_updates' = [local_ip_updates EXCEPT !.deleted = PopTable(@, pport)]
    /\ ghost' = GhostForget(ghost, pport)
    /\ UNCHANGED <<pport, snap, installed, removed, handed, PortFrame>>

\* The two loops of handle_port over what the drain returned.
ThLoops ==
    /\ ppc = "loops"
    /\ ppc' = "idle"
    /\ installed' = AddedLoop(ret)
    /\ removed' = DeletedLoop(ret)
    /\ handed' = handed \cup Objs(AddedLoop(ret)) \cup Objs(DeletedLoop(ret))
    /\ UNCHANGED <<local_ip_updates, pport, snap, ret, ghost, PortFrame>>

\* self.local_ip_updates['added'].pop(port['port_id'], None)
ThDiscardAdded(port_id) ==
    /\ pc = "ready"
    /\ ppc = "idle"
    /\ ppc' = "discard_deleted"
    /\ pport' = port_id
    /\ local_ip_updates' = [local_ip_updates EXCEPT !.added = PopTable(@, port_id)]
    /\ ret' = NewStore
    /\ installed' = {}
    /\ removed' = {}
    /\ UNCHANGED <<snap, handed, ghost, PortFrame>>

\* self.local_ip_updates['deleted'].pop(port['port_id'], None)
ThDiscardDeleted ==
    /\ ppc = "discard_deleted"
    /\ ppc' = "idle"
    /\ local_ip_updates' = [local_ip_updates EXCEPT !.deleted = PopTable(@, pport)]
    /\ ghost' = GhostForget(ghost, pport)
    /\ UNCHANGED <<pport, snap, ret, installed, removed, handed, PortFrame>>

NextThreads ==
    \/ \E d \in DriverTypes : InitRegister(d)
    \/ InitCreateStore
    \/ \E pairs \in PairLists(MaxSeed) : InitBulkPull(pairs)
    \/ InitSeed
    \/ \E r \in ResourceTypes, e \in EventTypes : ThCall(r, e)
    \/ \E p \in Ports, l \in Lips : ThNoStore(p, l)
    \/ \E p \in Ports, l \in Lips : ThUpsert(p, l)
    \/ \E p \in Ports, l \in Lips : ThSetDeleted(p, l)
    \/ ThEvictAdded
    \/ \E p \in Ports, l \in Lips : ThIgnore(p, l)
    \/ ThNotify
    \/ ThReturn
    \/ \E p \in Ports : ThPopAdded(p)
    \/ ThPopDeleted
    \/ ThLoops
    \/ \E p \in Ports : ThDiscardAdded(p)
    \/ ThDiscardDeleted

SpecThreads == Init /\ [][NextThreads]_vars

\* ---------------------------------------------------- small configuration
\* The handlers of Spec, with fewer objects.
NextFew ==
    \/ \E d \in DriverTypes, pairs \in PairLists(MaxFewSeed) : Initialize(d, pairs)
    \/ \E r \in ResourceTypes, e \in EventTypes : NotificationCall(r, e)
    \/ \E p \in Ports, l \in Lips : nextObj <= MaxFewObj /\ NotificationRecord(p, l)
    \/ NotificationReturn
    \/ \E p \in Ports : HandlePort(p)
    \/ \E p \in Ports : DeletePort(p)

\* ------------------------------------------------------------ redelivery
\* One turn of the loop for a record the batch holds once more: the next
\* element of local_ip_associations is the object the loop has just gone
\* through.
Occurrences(list, assoc) == Cardinality({i \in 1..Len(list) : list[i] = assoc})

NotificationRedelivered ==
    /\ npc = "loop"
    /\ has_store
    /\ notification.local_ip_associations # << >>
    /\ Occurrences(notification.local_ip_associations, Current) <= MaxRepeat
    /\ LET s == ReduceRecord([upd |-> local_ip_updates, log |-> log], Current,
                             notification.event_type)
       IN  /\ local_ip_updates' = s.upd
           /\ log' = s.log
           /\ notification' = [notification EXCEPT
                                 !.local_ip_associations = Append(@, Current)]
           /\ ghost' = GhostSignals(GhostRecord(ghost, Current, notification.event_type),
                                    log, s.log)
    /\ UNCHANGED <<pc, registered, has_store, assoc_list, lastOp, ret, installed,
                   removed, handed, nextObj, npc, threadVars>>

NextRedeliver ==
    \/ NextFew
    \/ NotificationRedelivered

SpecRedeliver == Init /\ [][NextRedeliver]_vars

\* -------------------------------------------------------------- fairness
\* The port pipeline answers a "port updated" (and the restart) by a call of
\* handle_port or delete_port for the port.
Answer(p) ==
    /\ p \in ghost.due
    /\ HandlePort(p) \/ DeletePort(p)

\* The handlers run one after the other; the loop of _handle_notification
\* over a finite batch ends, and the port pipeline answers every port it has
\* been told to handle.
SpecLive ==
    /\ Init /\ [][NextFew]_vars
    /\ WF_vars(NotificationReturn)
    /\ \A p \in Ports : SF_vars(Answer(p))

\* ================================================================ claims
InTable(t, k) == k[1] \in DOMAIN t /\ k[2] \in DOMAIN t[k[1]]

InAdded(k) == InTable(local_ip_updates.added, k)

InDeleted(k) == InTable(local_ip_updates.deleted, k)

NotifiedKinds == {CREATED, UPDATED, DELETED}

\* C1 (as stated): once a (port, id) pair has received CREATED / UPDATED /
\* DELETED notifications with no drain or discard in between, the id is in
\* at most one of added[port] and deleted[port], and it is in deleted[port]
\* if and only if the most recent of those events was DELETED.
C1_AtMostOneTable ==
    \A k \in Keys :
        ghost.ev[k] \in NotifiedKinds =>
            /\ ~(InAdded(k) /\ InDeleted(k))
            /\ InDeleted(k) <=> ghost.ev[k] = DELETED

\* C2 (as stated): with the handlers running as threads, what the drain of
\* handle_port returns is the two tables of the port as they were at the
\* instant the drain began: nothing applied after that instant is in it.
C2_DrainIsAtomic == ppc = "loops" => ret = snap

\* C3 (as stated): seeding precedes subscription. No notification meets a
\* missing store, no notification has an effect on the store while
\* initialize has not finished seeding it, and so no id the seed has put in
\* 'added' (with no event for it since) is found in 'deleted' as well.
C3_SeedBeforeSubscribe ==
    /\ ~crashed
    /\ pc \notin {"ready", "exited"} => local_ip_updates = NewStore
    /\ \A k \in Keys : ghost.ev[k] = "seed" => ~InDeleted(k)

\* C4: every handle_port hands exactly what is pending for its port to its
\* two loops (the 'added' table to the first, the 'deleted' table to the
\* second) and leaves nothing of the port behind, no object it hands over
\* has been handed over by an earlier call, and no other handler hands
\* anything over.
PendingAdded(upd, p) == DictValues(DictGet(upd.added, p, EmptyDict))

PendingDeleted(upd, p) == DictValues(DictGet(upd.deleted, p, EmptyDict))

PortView(upd, p) ==
    <<p \in DOMAIN upd.added, DictGet(upd.added, p, EmptyDict),
      p \in DOMAIN upd.deleted, DictGet(upd.deleted, p, EmptyDict)>>

OthersUntouched(a) ==
    \A b \in Ports \ {a} :
        PortView(local_ip_updates', b) = PortView(local_ip_updates, b)

RecordStep ==
    Len(notification'.local_ip_associations)
        = Len(notification.local_ip_associations) + 1

C5_OtherPortsUntouched ==
    [][ /\ lastOp'.op \in {"handle_port", "delete_port"} =>
              OthersUntouched(lastOp'.port)
        /\ lastOp'.op = "handle_port" =>
              \A r \in DictValues(ret'.added) \cup DictValues(ret'.deleted) :
                  r.fixed_port_id = lastOp'.port
        /\ RecordStep =>
              LET batch == notification'.local_ip_associations
              IN  OthersUntouched(batch[Len(batch)].fixed_port_id) ]_vars

C5_Witness ==
    /\ lastOp.op = "handle_port"
    /\ lastOp.port = "A"
    /\ ret.added # EmptyDict
    /\ InAdded(<<"B", "l1">>)
    /\ InDeleted(<<"B", "l2">>)

\* C6: in a notification of the recognised type and of kind CREATED, UPDATED
\* or DELETED, every loop turn applies the record's store effect and then
\* publishes exactly one "port updated" for the record's port, before the
\* next record is read; so the trace of the call is effect, signal, effect,
\* signal, ... in batch order, and a port gets as many signals as the batch
\* has records for it.
Signals(p) == {i \in 1..Len(log) : log[i].op = "port_updated" /\ log[i].port = p}

RecordsFor(p) ==
    {i \in 1..Len(notification.local_ip_associations) :
        notification.local_ip_associations[i].fixed_port_id = p}

TraceInBatchOrder ==
    LET batch == notification.local_ip_associations
        e == notification.event_type
    IN  /\ Len(log) = 2 * Len(batch)
        /\ \A i \in 1..Len(batch) :
              /\ log[2 * i - 1] = LogEntry(EffectName(e), batch[i])
              /\ log[2 * i] = LogEntry("port_updated", batch[i])
        /\ \A p \in Ports : Cardinality(Signals(p)) = Cardinality(RecordsFor(p))

C6_OneSignalPerRecord ==
    /\ [](notification.event_type \in NotifiedKinds => TraceInBatchOrder)
    /\ [][ (RecordStep /\ notification.event_type \in NotifiedKinds) =>
              LET batch == notification'.local_ip_associations
                  a == batch[Len(batch)]
              IN  /\ local_ip_updates'
                        = Effect(local_ip_updates, a, notification.event_type)
                  /\ log' = log \o <<LogEntry(EffectName(notification.event_type), a),
                                     LogEntry("port_updated", a)>> ]_vars

C6_Witness ==
    /\ npc = "idle"
    /\ notification.event_type = DELETED
    /\ Len(notification.local_ip_associations) = 2
    /\ Cardinality(Signals("A")) = 2
    /\ InDeleted(<<"A", "l1">>)
    /\ InDeleted(<<"A", "l2">>)

\* C7: handle_port's drain returns the two tables of the port as they were
\* and removes them; a second drain of the same port right after a drain
\* that returned pending changes returns two empty dicts.
C7_DrainThenEmpty ==
    [][ lastOp'.op = "handle_port" =>
          /\ ret' = [added   |-> DictGet(local_ip_updates.added, lastOp'.port, EmptyDict),
                     deleted |-> DictGet(local_ip_updates.deleted, lastOp'.port, EmptyDict)]
          /\ lastOp'.again =>
                /\ ret # NewStore
                /\ ret' = NewStore ]_vars

C7_Witness ==
    /\ lastOp.op = "handle_port"
    /\ lastOp.again
    /\ ret = NewStore
    /\ handed # {}

\* C8: delete_port leaves the port absent from both tables whatever was
\* pending for it, hands nothing to the loops of handle_port, publishes
\* nothing, and a drain of the port in the state it leaves returns two
\* empty dicts.
C8_DiscardLeavesNothing ==
    [][ lastOp'.op = "delete_port" =>
          /\ lastOp'.port \notin DOMAIN local_ip_updates'.added
          /\ lastOp'.port \notin DOMAIN local_ip_updates'.deleted
          /\ PopReturn(local_ip_updates', lastOp'.port) = NewStore
          /\ installed' = {}
          /\ removed' = {}
          /\ handed' = handed
          /\ log' = << >> ]_vars

\* One object was added to B, nothing was handed over, B was deleted.
C8_Witness ==
    /\ lastOp.op = "delete_port"
    /\ lastOp.port = "B"
    /\ ghost.up[<<"A", "l1">>] = 1
    /\ ghost.del[<<"A", "l1">>] = 2
    /\ nextObj = 4
    /\ handed = {}
    /\ local_ip_updates.added = [A |-> EmptyDict]

\* C9: right after initialize, when the bulk pull answered records with
\* pairwise distinct (port, local ip), 'added' has exactly the ports of the
\* answer as keys, each mapping to exactly the records of that port,
\* 'deleted' is empty and nothing was published.
DistinctKeys(list) ==
    \A i, j \in 1..Len(list) :
        (list[i].fixed_port_id = list[j].fixed_port_id
         /\ list[i].local_ip_id = list[j].local_ip_id) => i = j

ListRecords(list, p) == {list[i] : i \in {j \in 1..Len(list) : list[j].fixed_port_id = p}}

ListPorts(list) == {list[i].fixed_port_id : i \in 1..Len(list)}

C9_SeedGroupsByPort ==
    (lastOp.op = "initialize" /\ DistinctKeys(assoc_list)) =>
        /\ DOMAIN local_ip_updates.added = ListPorts(assoc_list)
        /\ \A p \in ListPorts(assoc_list) :
              /\ DictValues(local_ip_updates.added[p]) = ListRecords(assoc_list, p)
              /\ Cardinality(DOMAIN local_ip_updates.added[p])
                    = Cardinality(ListRecords(assoc_list, p))
              /\ \A l \in DOMAIN local_ip_updates.added[p] :
                    local_ip_updates.added[p][l].local_ip_id = l
        /\ local_ip_updates.deleted = EmptyDict
        /\ log = << >>

C9_Witness ==
    /\ lastOp.op = "initialize"
    /\ Len(assoc_list) = MaxSeed
    /\ DistinctKeys(assoc_list)
    /\ Cardinality(ListPorts(assoc_list)) = 2

\* C10: an id present in added[port] maps to the object the most recent
\* seed / CREATED / UPDATED for that (port, id) carried, an id present in
\* deleted[port] to the object the most recent DELETED carried; after seed
\* {l1, A}, CREATED {l2, A}, DELETED {l1, A} a drain of A returns
\* added = {l2: the created record} and deleted = {l1: the deleted record}.
Scenario ==
    /\ nextObj = 4
    /\ npc = "idle"
    /\ ghost.up = [k \in Keys |-> IF k = <<"A", "l1">> THEN 1
                                  ELSE IF k = <<"A", "l2">> THEN 2 ELSE 0]
    /\ ghost.del = [k \in Keys |-> IF k = <<"A", "l1">> THEN 3 ELSE 0]
    /\ ghost.ev[<<"A", "l2">>] = CREATED

C10_LastWriteWins ==
    /\ \A k \in Keys :
          /\ InAdded(k) =>
                local_ip_updates.added[k[1]][k[2]] = Assoc(k[1], k[2], ghost.up[k])
          /\ InDeleted(k) =>
                local_ip_updates.deleted[k[1]][k[2]] = Assoc(k[1], k[2], ghost.del[k])
    /\ Scenario =>
          PopReturn(local_ip_updates, "A")
              = [added   |-> [l2 |-> Assoc("A", "l2", 2)],
                 deleted |-> [l1 |-> Assoc("A", "l1", 3)]]

C10_Witness ==
    /\ Scenario
    /\ lastOp.op = "notification"
    /\ notification.event_type = DELETED
    /\ assoc_list = << >>

\* C11: a notification whose resource type is not LOCAL_IP_ASSOCIATION is
\* discarded as a whole: the call leaves both tables as they were, reads no
\* record of its batch, publishes nothing and has returned (the handler is
\* not in its loop).
C11_UnrecognisedTypeDiscarded ==
    /\ [](notification.resource_type \notin {"none", LOCAL_IP_ASSOCIATION} =>
            /\ npc = "idle"
            /\ notification.local_ip_associations = << >>
            /\ log = << >>)
    /\ [][ (lastOp'.op = "notification"
            /\ notification'.resource_type # LOCAL_IP_ASSOCIATION) =>
              /\ local_ip_updates' = local_ip_updates
              /\ ghost' = ghost
              /\ nextObj' = nextObj
              /\ npc' = "idle" ]_vars

C11_Witness ==
    /\ lastOp.op = "notification"
    /\ notification.resource_type = PORT
    /\ notification.event_type = DELETED
    /\ InAdded(<<"A", "l1">>)
    /\ InDeleted(<<"B", "l2">>)

\* C12: initialize with a driver type other than EXTENSION_DRIVER_TYPE ends
\* the process at once: no consumer is registered, no store is created, no
\* bulk pull is made, and no handler takes a step afterwards.
C12_WrongDriverExits ==
    /\ [](pc = "exited" =>
            /\ lastOp.op = "exit"
            /\ ~registered
            /\ ~has_store
            /\ local_ip_updates = NewStore
            /\ assoc_list = << >>
            /\ nextObj = 1)
    /\ [][pc # "exited"]_vars
    /\ [](lastOp.op = "exit" => pc = "exited")

C12_Witness ==
    /\ pc = "exited"
    /\ lastOp.op = "exit"
    /\ npc = "idle"
    /\ log = << >>

\* C13: handle_port and delete_port of a port with nothing pending (never
\* touched, already drained, already discarded) return two empty dicts, run
\* neither loop, and create no key for the port; after any handle_port or
\* delete_port the port is a key of neither table.
NoPending(upd, p) == PendingAdded(upd, p) = {} /\ PendingDeleted(upd, p) = {}

Absent(upd, p) == p \notin DOMAIN upd.added /\ p \notin DOMAIN upd.deleted

C13_MissingPortIsEmpty ==
    [][ lastOp'.op \in {"handle_port", "delete_port"} =>
          /\ Absent(local_ip_updates', lastOp'.port)
          /\ NoPending(local_ip_updates, lastOp'.port) =>
                /\ ret' = NewStore
                /\ installed' = {}
                /\ removed' = {}
                /\ handed' = handed
                /\ \A q \in Ports :
                      PortView(local_ip_updates', q) = PortView(local_ip_updates, q) ]_vars

\* B was never touched and is drained while A has pending changes.
C13_Witness ==
    /\ lastOp.op = "handle_port"
    /\ lastOp.port = "B"
    /\ ~lastOp.again
    /\ ret = NewStore
    /\ handed = {}
    /\ InAdded(<<"A", "l1">>)
    /\ InDeleted(<<"A", "l2">>)
    /\ Absent(local_ip_updates, "B")

\* C14: in a notification of the recognised type whose event type is none of
\* CREATED, UPDATED, DELETED, every record is discarded alone: its loop turn
\* leaves both tables as they were and the loop goes on to the next record,
\* so the records are gone through one by one in batch order.
UnknownKind(n) ==
    /\ n.resource_type = LOCAL_IP_ASSOCIATION
    /\ n.event_type \notin NotifiedKinds

C14_UnknownKindDiscardedAlone ==
    /\ [][ (RecordStep /\ UnknownKind(notification)) =>
              LET batch == notification'.local_ip_associations
              IN  /\ local_ip_updates' = local_ip_updates
                  /\ ghost'.ev = ghost.ev
                  /\ ghost'.up = ghost.up
                  /\ ghost'.del = ghost.del
                  /\ npc' = "loop"
                  /\ SubSeq(batch, 1, Len(batch) - 1)
                        = notification.local_ip_associations
                  /\ log'[Len(log') - 1] = LogEntry("ignore", batch[Len(batch)]) ]_vars
    /\ [](UnknownKind(notification) =>
            \A i \in 1..Len(notification.local_ip_associations) :
                log[2 * i - 1]
                    = LogEntry("ignore", notification.local_ip_associations[i]))

C14_Witness ==
    /\ npc = "idle"
    /\ UnknownKind(notification)
    /\ Len(notification.local_ip_associations) = 2
    /\ notification.local_ip_associations[1].fixed_port_id = "A"
    /\ notification.local_ip_associations[2].fixed_port_id = "A"
    /\ local_ip_updates.added = [A |-> [l1 |-> Assoc("A", "l1", 1)]]
    /\ local_ip_updates.deleted = EmptyDict

\* C15: the store effect of a record is idempotent. A loop turn for the
\* object the loop has just gone through (the same record twice in a row)
\* leaves the store as the first turn left it, whatever the event type; and
\* every turn of a DELETED record ends with the record in deleted[port][id]
\* and the id not in added[port].
Last(list) == list[Len(list)]

Redelivery ==
    /\ RecordStep
    /\ notification.local_ip_associations # << >>
    /\ Last(notification'.local_ip_associations)
          = Last(notification.local_ip_associations)

C15_EffectIdempotent ==
    /\ [][Redelivery => local_ip_updates' = local_ip_updates]_vars
    /\ [][ (RecordStep /\ notification.event_type = DELETED) =>
              LET a == Last(notification'.local_ip_associations)
                  k == <<a.fixed_port_id, a.local_ip_id>>
              IN  /\ InTable(local_ip_updates'.deleted, k)
                  /\ local_ip_updates'.deleted[k[1]][k[2]] = a
                  /\ ~InTable(local_ip_updates'.added, k) ]_vars
    /\ [][ (RecordStep /\ notification.event_type \in {CREATED, UPDATED}) =>
              LET a == Last(notification'.local_ip_associations)
                  k == <<a.fixed_port_id, a.local_ip_id>>
              IN  /\ InTable(local_ip_updates'.added, k)
                  /\ local_ip_updates'.added[k[1]][k[2]] = a ]_vars

\* A seeded record of A was deleted by a record delivered twice in a row.
C15_Witness ==
    /\ npc = "loop"
    /\ notification.event_type = DELETED
    /\ Len(notification.local_ip_associations) = 2
    /\ notification.local_ip_associations[1] = notification.local_ip_associations[2]
    /\ ghost.up[<<"A", "l1">>] = 1
    /\ local_ip_updates.deleted = [A |-> [l1 |-> Assoc("A", "l1", 2)]]
    /\ local_ip_updates.added = [A |-> EmptyDict]

\* C16: a CREATED / UPDATED record for a (port, id) whose last event, with no
\* drain or discard of the port since, was DELETED puts the id back in
\* added[port], mapped to the new record, although the id is in
\* deleted[port].
C16_UpdateAfterDeleteReadds ==
    [][ (RecordStep /\ notification.event_type \in {CREATED, UPDATED}) =>
          LET a == Last(notification'.local_ip_associations)
              k == <<a.fixed_port_id, a.local_ip_id>>
          IN  ghost.ev[k] = DELETED =>
                /\ InDeleted(k)
                /\ ~InAdded(k)
                /\ InTable(local_ip_updates'.added, k)
                /\ local_ip_updates'.added[k[1]][k[2]] = a ]_vars

C16_Witness ==
    /\ npc = "idle"
    /\ notification.event_type = UPDATED
    /\ ghost.ev[<<"B", "l2">>] = UPDATED
    /\ ghost.del[<<"B", "l2">>] = 2
    /\ local_ip_updates.added["B"] = [l2 |-> Assoc("B", "l2", 3)]
    /\ InDeleted(<<"B", "l2">>)

\* C18: in a notification of the recognised type every loop turn publishes
\* exactly one "port updated" for the port of its record, whatever the event
\* type; a record of an unrecognised type leaves the store as it was and is
\* still followed by its one signal.
C18_SignalWhateverTheKind ==
    /\ [][ RecordStep =>
              LET a == Last(notification'.local_ip_associations)
                  new == SubSeq(log', Len(log) + 1, Len(log'))
              IN  /\ Len(new) = 2
                  /\ new[1].op # "port_updated"
                  /\ new[2] = LogEntry("port_updated", a)
                  /\ UnknownKind(notification) =>
                        local_ip_updates' = local_ip_updates ]_vars
    /\ [](notification.resource_type = LOCAL_IP_ASSOCIATION =>
            \A p \in Ports : Cardinality(Signals(p)) = Cardinality(RecordsFor(p)))

\* Two records of an unrecognised event type for B, nothing pending.
C18_Witness ==
    /\ UnknownKind(notification)
    /\ Cardinality(RecordsFor("B")) = 2
    /\ Cardinality(Signals("B")) = 2
    /\ Signals("A") = {}
    /\ local_ip_updates = NewStore
    /\ has_store

\* C17: whenever a port has pending changes the port pipeline has been told
\* to handle it (every store mutation of a notification record is followed
\* by a "port updated" for the port); so, the pipeline answering by
\* handle_port or delete_port, a port with pending changes eventually has
\* none, and once the notifications have stopped no port has pending
\* changes for ever.
Pending(p) == ~NoPending(local_ip_updates, p)

C17_PendingEventuallyDrained ==
    /\ [](\A p \in Ports : Pending(p) => p \in ghost.due)
    /\ \A p \in Ports : Pending(p) ~> ~Pending(p)
    /\ <>[](\A p \in Ports : ~Pending(p))

\* A was told of a DELETED record and has been drained by handle_port.
C17_Witness ==
    /\ lastOp.op = "handle_port"
    /\ lastOp.port = "A"
    /\ ret.deleted # EmptyDict
    /\ "A" \notin ghost.due
    /\ ~Pending("A")
    /\ Pending("B")
    /\ "B" \in ghost.due

====
